---- MODULE Spec2Model ----
(***************************************************************************)
(* Model of the orchestration engine of metrics_etl (core/pipeline.py):    *)
(* ETLEngine.run and ETLEngine.run_signal drive, for every configured      *)
(* signal, extractor resolution, secrets, the extraction cache, the        *)
(* transformer and the loaders.  Plugins (extractors, transformers,        *)
(* loaders) are external collaborators: each call returns or raises, and   *)
(* the model draws the outcome of every call from a small set.             *)
(***************************************************************************)
EXTENDS Integers, Sequences, FiniteSets, TLC

\* ------------------------------------------------------------------------
\* Bounds of the model
\* ------------------------------------------------------------------------
NumSignals == 2

\* largest number of entries of a parameter mapping handed to
\* _make_hashable_key directly
MaxKeys == 2

\* largest number of pieces (text or reference) of a configuration string
\* handed to _process_env_vars directly
MaxPieces == 2

\* largest number of secret names handed to get_secrets directly
MaxNames == 2

MaxCalls == 2

\* ------------------------------------------------------------------------
\* Parameter values (what yaml.safe_load produces) and cache keys.
\* Every value is a record of one shape: t is the Python type, n the
\* payload of a primitive (strings are numbered in their sort order) and
\* items the elements of a container.  A dict is the sequence of its
\* (key, value) pairs in insertion order.
\* ------------------------------------------------------------------------
StrV(n) == [t |-> "str", n |-> n, items |-> <<>>]

IntV(n) == [t |-> "int", n |-> n, items |-> <<>>]

Pair(k, v) == [t |-> "pair", n |-> 0, items |-> <<k, v>>]

List(s) == [t |-> "list", n |-> 0, items |-> s]

Dict(s) == [t |-> "dict", n |-> 0, items |-> s]

Tuple(s) == [t |-> "tuple", n |-> 0, items |-> s]

JsonStr(s) == [t |-> "json", n |-> 0, items |-> s]

TypeError == [t |-> "TypeError", n |-> 0, items |-> <<>>]

IsRaised(v) == v.t = "TypeError"

\* Python's < on two dict keys: defined inside one type only.
Comparable(a, b) == a.t = b.t

KeyLess(a, b) == a.n < b.n

\* sorted() of a sequence of (key, value) pairs: the keys of one dict are
\* distinct, so the order is decided by the keys alone; comparing keys of
\* two different types raises TypeError.
RECURSIVE InsertPair(_, _)
InsertPair(p, s) ==
    IF s = <<>> THEN <<p>>
    ELSE IF KeyLess(p.items[1], Head(s).items[1]) THEN <<p>> \o s
    ELSE <<Head(s)>> \o InsertPair(p, Tail(s))

KeepOrder(s) == s

RECURSIVE SortedPairs(_)
SortedPairs(s) ==
    IF s = <<>> THEN <<>> ELSE InsertPair(Head(s), SortedPairs(Tail(s)))

MixedKeys(s) ==
    \E i, j \in 1..Len(s) : ~Comparable(s[i].items[1], s[j].items[1])

RECURSIVE AnyMixed(_)
AnyMixed(v) ==
    CASE v.t = "dict" -> MixedKeys(v.items)
                         \/ \E i \in 1..Len(v.items) : AnyMixed(v.items[i].items[2])
      [] v.t = "list" -> \E i \in 1..Len(v.items) : AnyMixed(v.items[i])
      [] OTHER -> FALSE

\* json.dumps(params, sort_keys=True): sorts the keys of every dict, so it
\* raises TypeError as soon as one dict, at any depth, mixes key types.
RECURSIVE JsonBody(_)
JsonBody(v) ==
    CASE v.t = "dict" ->
           Dict(SortedPairs([i \in 1..Len(v.items) |->
                   Pair(v.items[i].items[1], JsonBody(v.items[i].items[2]))]))
      [] v.t = "list" -> List([i \in 1..Len(v.items) |-> JsonBody(v.items[i])])
      [] OTHER -> v

JsonDumpsSorted(v) == IF AnyMixed(v) THEN TypeError ELSE JsonStr(<<JsonBody(v)>>)

\* ETLEngine._make_hashable_key
RECURSIVE MakeHashableKey(_)
MakeHashableKey(params) ==
    CASE params.t = "dict" ->
           LET conv == [i \in 1..Len(params.items) |->
                          Pair(params.items[i].items[1],
                               MakeHashableKey(params.items[i].items[2]))]
               direct == IF (\E i \in 1..Len(conv) : IsRaised(conv[i].items[2]))
                            \/ MixedKeys(conv)
                         THEN TypeError
                         ELSE Tuple([i \in 1..Len(conv) |->
                                      Tuple(SortedPairs(conv)[i].items)])
           IN  IF IsRaised(direct) THEN JsonDumpsSorted(params) ELSE direct
      [] params.t = "list" ->
           LET conv == [i \in 1..Len(params.items) |-> MakeHashableKey(params.items[i])]
           IN  IF \E i \in 1..Len(conv) : IsRaised(conv[i]) THEN TypeError
               ELSE Tuple(conv)
      [] OTHER -> params

\* dict.copy() followed by d[k] = v
DictSet(d, k, v) ==
    IF \E i \in 1..Len(d.items) : d.items[i].items[1] = k
    THEN Dict([i \in 1..Len(d.items) |->
                 IF d.items[i].items[1] = k THEN Pair(k, v) ELSE d.items[i]])
    ELSE Dict(Append(d.items, Pair(k, v)))

\* ------------------------------------------------------------------------
\* Static plugin tables of the engine and what the runtime can import
\* ------------------------------------------------------------------------
extractor_map == {"fred_extractor", "alternative_extractor",
                  "coingecko_extractor", "alternative_global_extractor"}

transformer_map == {"m2_transformer", "fear_greed_transformer",
                    "bitcoin_price_transformer", "total_market_cap_transformer",
                    "bitcoin_24h_change_transformer", "bitcoin_7d_change_transformer",
                    "bitcoin_30d_change_transformer", "bitcoin_market_cap_transformer",
                    "bitcoin_24h_volume_transformer"}

\* (module, class) pairs that import_module/getattr resolve
Importable == {<<"etl.extract.vision_twitter_extractor", "VisionTwitterExtractor">>,
               <<"etl.transform.twitter_sentiment_transformer", "TwitterSentimentTransformer">>}

\* loader modules under etl/load and the keyword their constructor accepts
LoaderModules == {"supabase_loader", "file_loader", "tweet_metrics_loader",
                  "google_sheets_loader"}

LoaderKeyword(name) == IF name = "tweet_metrics_loader" THEN "params" ELSE "config"

\* bundled plugin modules that define a class named ExtractionError or
\* TransformationError of their own, after importing the one of
\* utils.exceptions: the name in their raise statements is the local class
LocalErrorClass == {"fred_extractor", "fear_greed_transformer",
                    "bitcoin_price_transformer", "bitcoin_24h_change_transformer",
                    "bitcoin_30d_change_transformer",
                    "bitcoin_market_cap_transformer",
                    "bitcoin_24h_volume_transformer"}

\* the class of the exception object a plugin raises, as isinstance in the
\* engine sees it, when the plugin raises what it calls out
RaisedClass(plugin, out) ==
    IF plugin \in LocalErrorClass /\ out \in {"ExtractionError", "TransformationError"}
    THEN "Local" \o out
    ELSE out

\* number of parameters of log_etl_failure(signal_name, error)
LogEtlFailureParams == 2

\* ------------------------------------------------------------------------
\* Configuration (signals.yaml after yaml.safe_load) and environment
\* ------------------------------------------------------------------------
Signals == 1..NumSignals

\* Signal names are the integers 1..NumSignals, in configured order; the
\* name NumSignals + 1 is configured nowhere, and 0 is a name that only a
\* transformer writes (BitcoinPriceTransformer's "bitcoin_price").
Nonexistent == NumSignals + 1

PA == Dict(<<Pair(StrV(1), IntV(1)), Pair(StrV(2), IntV(2))>>)

\* the mapping PA, written in the other order
PB == Dict(<<Pair(StrV(2), IntV(2)), Pair(StrV(1), IntV(1))>>)

\* a mapping with an integer key and a string key
PMixed == Dict(<<Pair(IntV(1), IntV(1)), Pair(StrV(1), IntV(1))>>)

\* the parameter name "api_key" and the value of a secret
ApiKeyParam == StrV(3)

SecretValue(name) == StrV(4)

NameSpec(name) == [style |-> "name", name |-> name, module |-> "", class |-> "",
                   params |-> Dict(<<>>)]

DictSpec(module, class, params) ==
    [style |-> "dict", name |-> "", module |-> module, class |-> class,
     params |-> params]

ListSpec(module, class, params) ==
    [style |-> "list", name |-> "", module |-> module, class |-> class,
     params |-> params]

\* the parameter names "table", "url" and "key" of a loader, and the value
\* of an environment variable
TableParam == StrV(5)

UrlParam == StrV(6)

KeyParam == StrV(7)

EnvValue(name) == StrV(8)

\* a loader entry {type: ..., config: {table: ...}}
TypeLoader(type) ==
    [style |-> "type", name |-> type, params |-> Dict(<<Pair(TableParam, StrV(1))>>)]

\* a loader entry {module: ..., class: ..., params: {table: ...}}
ModuleLoader(name) ==
    [style |-> "module", name |-> name, params |-> Dict(<<Pair(TableParam, StrV(1))>>)]

\* the default_loaders literal of run() and run_signal()
default_loaders == <<TypeLoader("supabase_loader")>>

BaseConfig ==
    [extractor |-> NameSpec("coingecko_extractor"),
     extractor_params |-> PA,
     secrets |-> <<>>,
     secret_mapping |-> <<>>,
     transformer |-> NameSpec("bitcoin_price_transformer"),
     has_loaders |-> TRUE,
     loaders |-> <<TypeLoader("file_loader"), ModuleLoader("csv_loader"),
                   ModuleLoader("supabase_loader")>>]

FredMapping == <<[param |-> ApiKeyParam, secret |-> "FRED_API_KEY"]>>

SignalConfigs ==
    { \* three loaders, the second names a module that does not exist
      BaseConfig,
      \* same extractor and mapping as BaseConfig, no loaders key
      [BaseConfig EXCEPT !.extractor_params = PB, !.has_loaders = FALSE,
                         !.loaders = <<>>],
      \* a declared secret mapped to api_key, unknown transformer name
      [BaseConfig EXCEPT !.extractor = NameSpec("fred_extractor"),
                         !.secrets = <<"FRED_API_KEY">>,
                         !.secret_mapping = FredMapping,
                         !.transformer = NameSpec("bitcoin_dominance_transformer")],
      \* a mapped secret that is not declared, transformer that cannot be
      \* imported
      [BaseConfig EXCEPT !.extractor = NameSpec("fred_extractor"),
                         !.secret_mapping = FredMapping,
                         !.transformer = DictSpec("etl.transform.missing", "Missing",
                                                  Dict(<<>>))],
      \* module/class extractor with secrets and unkeyable parameters;
      \* disabled loader, both constructor conventions
      [BaseConfig EXCEPT !.extractor = DictSpec("etl.extract.vision_twitter_extractor",
                                                "VisionTwitterExtractor", PMixed),
                         !.secrets = <<"FRED_API_KEY">>,
                         !.secret_mapping = FredMapping,
                         !.transformer = ListSpec("etl.transform.twitter_sentiment_transformer",
                                                  "TwitterSentimentTransformer", Dict(<<>>)),
                         !.loaders = <<TypeLoader("google_sheets_loader"),
                                       TypeLoader("tweet_metrics_loader"),
                                       ModuleLoader("tweet_metrics_loader")>>],
      \* unknown extractor name
      [BaseConfig EXCEPT !.extractor = NameSpec("binance_extractor")],
      \* module/class extractor that cannot be imported
      [BaseConfig EXCEPT !.extractor = DictSpec("etl.extract.missing", "Missing", PA)] }

EnvNames == {"FRED_API_KEY", "SUPABASE_URL"}

Environments == {{}, EnvNames}

get_secrets_skipping(required_secrets, environ) ==
    [raised |-> FALSE, missing |-> "",
     secrets |-> {required_secrets[i] : i \in 1..Len(required_secrets)} \cap environ]

WritesReachOriginal(original, written) == written

\* d.copy() followed by assignments to the copy: what the mapping d of the
\* configuration holds afterwards, the copy holding written
AfterWritesToCopy(original, written) == original

\* SecretsManager.get_secrets
get_secrets(required_secrets, environ) ==
    IF \E i \in 1..Len(required_secrets) : required_secrets[i] \notin environ
    THEN [raised |-> TRUE,
          missing |-> required_secrets[CHOOSE i \in 1..Len(required_secrets) :
                          /\ required_secrets[i] \notin environ
                          /\ \A j \in 1..(i - 1) : required_secrets[j] \in environ],
          secrets |-> {}]
    ELSE [raised |-> FALSE, missing |-> "",
          secrets |-> {required_secrets[i] : i \in 1..Len(required_secrets)}]

\* the loop over secret_mapping.items() of run() and run_signal()
RECURSIVE MergeSecrets(_, _, _)
MergeSecrets(params, mapping, secrets) ==
    IF mapping = <<>> THEN params
    ELSE MergeSecrets(IF Head(mapping).secret \in secrets
                      THEN DictSet(params, Head(mapping).param,
                                   SecretValue(Head(mapping).secret))
                      ELSE params,
                      Tail(mapping), secrets)

UnmappedSecrets(mapping, secrets) ==
    {mapping[i].secret : i \in 1..Len(mapping)} \ secrets

\* the cache key of a signal: (extractor_name, key) or (module, class, key)
CacheKey(extractor_def, extractor_params) ==
    LET k == MakeHashableKey(extractor_params)
    IN  IF IsRaised(k) THEN [raised |-> TRUE, ident |-> <<>>, params |-> k]
        ELSE [raised |-> FALSE,
              ident |-> IF extractor_def.style = "dict"
                        THEN <<extractor_def.module, extractor_def.class>>
                        ELSE <<extractor_def.name>>,
              params |-> k]

\* ------------------------------------------------------------------------
\* State
\* ------------------------------------------------------------------------
VARIABLES
    config,           \* self.config["signals"]: signal name -> signal config
    env,              \* names of the environment variables that are set
    extractor_cache,  \* self.extractor_cache: set of [key, raw] entries
    calls,            \* number of run()/run_signal() invocations started
    mode,             \* "idle", "run" or "run_signal"
    pc,               \* position of the engine inside the invocation
    cur,              \* the signal being processed (signal_name)
    loc,              \* local variables of the signal being processed
    events,           \* plugin calls made for the signal being processed
    logs,             \* log records written for the signal being processed
    status,           \* terminal report of every signal, this invocation
    fetched,          \* the signals for which fetch() was invoked, this invocation
    fetch_failed,     \* the signals for which a fetch() raised, this invocation
    result,           \* the last invocation and what it returned, or "raised"
    probe             \* a direct call of one function of the program: its
                      \* arguments and what it returned or raised

vars == <<config, env, extractor_cache, calls, mode, pc, cur, loc, events, logs,
          status, fetched, fetch_failed, result, probe>>

\* the variables of the engine
engine_vars == <<config, env, extractor_cache, calls, mode, pc, cur, loc, events,
                 logs, status, fetched, fetch_failed, result>>

Result(call, value) == [call |-> call, value |-> value]

NoRaw == [inv |-> 0, sig |-> 0, seq |-> 0]

NoData == [signal_name |-> -1, value |-> NoRaw]

NoKey == [raised |-> FALSE, ident |-> <<>>, params |-> TypeError]

InitLoc ==
    [extractor_params |-> Dict(<<>>), cache_key |-> NoKey, raw_data |-> NoRaw,
     transformed_data |-> NoData, loaders |-> <<>>, li |-> 1, lj |-> 1,
     load_successful |-> TRUE, exc |-> "none"]

\* no function is called directly
NoProbe == [fn |-> "none"]

Init ==
    /\ probe = NoProbe
    /\ config \in [Signals -> SignalConfigs]
    /\ env \in Environments
    /\ extractor_cache = {}
    /\ calls = 0
    /\ mode = "idle"
    /\ pc = "idle"
    /\ cur = 0
    /\ loc = InitLoc
    /\ events = <<>>
    /\ logs = {}
    /\ status = [i \in Signals |-> "PENDING"]
    /\ fetched = {}
    /\ fetch_failed = {}
    /\ result = Result("none", "none")

Log(level, msg) == [level |-> level, msg |-> msg]

Event(op, out, who, data) == [op |-> op, out |-> out, who |-> who, data |-> data]

\* A signal reaches a terminal report: run() goes on with the next signal
\* (continue / end of the loop body), run_signal() returns ret.
Terminal(st, ret) ==
    /\ status' = [status EXCEPT ![cur] = st]
    /\ IF mode = "run"
       THEN /\ pc' = "next"
            /\ UNCHANGED <<mode, result>>
       ELSE /\ pc' = "idle"
            /\ mode' = "idle"
            /\ result' = Result("run_signal", ret)

\* An exception leaves the try body of the signal.
Raise(e) ==
    /\ pc' = "except"
    /\ loc' = [loc EXCEPT !.exc = e]
    /\ UNCHANGED <<mode, result, status>>

ClearKeepsEntries(cache) == cache

\* self.extractor_cache.clear()
ClearCache(cache) == {}

\* run(): log_pipeline_start, extractor_cache.clear()
Run ==
    /\ mode = "idle"
    /\ calls < MaxCalls
    /\ calls' = calls + 1
    /\ extractor_cache' = ClearCache(extractor_cache)
    /\ mode' = "run"
    /\ pc' = "next"
    /\ cur' = 0
    /\ loc' = InitLoc
    /\ events' = <<>>
    /\ logs' = {}
    /\ status' = [i \in Signals |-> "PENDING"]
    /\ fetched' = {}
    /\ fetch_failed' = {}
    /\ result' = Result("run", "none")
    /\ UNCHANGED <<probe, config, env>>

\* run_signal(signal_name): clears the cache, then looks the name up
RunSignal(signal_name) ==
    /\ mode = "idle"
    /\ calls < MaxCalls
    /\ calls' = calls + 1
    /\ extractor_cache' = ClearCache(extractor_cache)
    /\ loc' = InitLoc
    /\ events' = <<>>
    /\ status' = [i \in Signals |-> "PENDING"]
    /\ fetched' = {}
    /\ fetch_failed' = {}
    /\ IF signal_name \notin DOMAIN config
       THEN /\ logs' = {Log("error", "Signal not found in configuration")}
            /\ result' = Result("run_signal", "False")
            /\ cur' = 0
            /\ UNCHANGED <<mode, pc>>
       ELSE /\ logs' = {}
            /\ result' = Result("run_signal", "none")
            /\ mode' = "run_signal"
            /\ cur' = signal_name
            /\ pc' = "resolve_extractor"
    /\ UNCHANGED <<probe, config, env>>

NextSkipsAhead(c) == IF c + 2 <= NumSignals THEN c + 2 ELSE c + 1

\* iteration over self.config["signals"].items(): insertion order
NextInOrder(c) == c + 1

\* the for statement of run(): the next configured signal, log_signal_start
NextSignal ==
    /\ mode = "run"
    /\ pc = "next"
    /\ cur < NumSignals
    /\ cur' = NextInOrder(cur)
    /\ pc' = "resolve_extractor"
    /\ loc' = InitLoc
    /\ events' = <<>>
    /\ logs' = {}
    /\ UNCHANGED <<probe, config, env, extractor_cache, calls, mode, status, fetched,
                   result, fetch_failed>>

\* end of the loop of run(): log_pipeline_end, return None
RunReturn ==
    /\ mode = "run"
    /\ pc = "next"
    /\ cur = NumSignals
    /\ mode' = "idle"
    /\ pc' = "idle"
    /\ result' = Result("run", "None")
    /\ UNCHANGED <<probe, config, env, extractor_cache, calls, cur, loc, events, logs,
                   status, fetched, fetch_failed>>

SkipAbortsInvocation ==
    /\ status' = [status EXCEPT ![cur] = "FAILED"]
    /\ pc' = "idle"
    /\ mode' = "idle"
    /\ result' = Result(mode, "raised")

\* a plugin that cannot be resolved, after the error is logged: continue in
\* run(), return False in run_signal()
SkipSignal == Terminal("FAILED", "False")

\* ------------------------------------------------------------------------
\* Extraction stage
\* ------------------------------------------------------------------------
\* extractor_def = signal_config["extractor"]; import or map lookup
ResolveExtractor ==
    /\ pc = "resolve_extractor"
    /\ LET extractor_def == config[cur].extractor
       IN  IF extractor_def.style = "dict"
           THEN IF <<extractor_def.module, extractor_def.class>> \in Importable
                THEN /\ loc' = [loc EXCEPT !.extractor_params = extractor_def.params]
                     /\ pc' = "cache"
                     /\ UNCHANGED <<logs, status, mode, result>>
                ELSE /\ logs' = logs \cup {Log("error", "Failed to import extractor")}
                     /\ SkipSignal
                     /\ UNCHANGED loc
           ELSE IF extractor_def.name \in extractor_map
                THEN /\ pc' = "secrets"
                     /\ UNCHANGED <<loc, logs, status, mode, result>>
                ELSE /\ logs' = logs \cup {Log("error", "Unknown extractor")}
                     /\ SkipSignal
                     /\ UNCHANGED loc
    /\ UNCHANGED <<probe, config, env, extractor_cache, calls, cur, events, fetched,
                   fetch_failed>>

\* extractor_params, get_secrets and the secret_mapping loop (name style only)
ResolveSecrets ==
    /\ pc = "secrets"
    /\ LET sc == config[cur]
           got == get_secrets(sc.secrets, env)
           merged == MergeSecrets(sc.extractor_params, sc.secret_mapping, got.secrets)
       IN  IF got.raised
           THEN /\ Raise("MissingSecretError")
                /\ UNCHANGED <<logs, config>>
           ELSE /\ loc' = [loc EXCEPT !.extractor_params = merged]
                /\ config' = [config EXCEPT ![cur].extractor_params =
                                 AfterWritesToCopy(@, merged)]
                /\ logs' = IF UnmappedSecrets(sc.secret_mapping, got.secrets) # {}
                           THEN logs \cup {Log("warning", "Secret not found")}
                           ELSE logs
                /\ pc' = "cache"
                /\ UNCHANGED <<mode, result, status>>
    /\ UNCHANGED <<probe, env, extractor_cache, calls, cur, events, fetched,
                   fetch_failed>>

CacheHasValue(cache, key) == \E e \in cache : e.raw = key

CacheHas(cache, key) == \E e \in cache : e.key = key

CacheGet(cache, key) == (CHOOSE e \in cache : e.key = key).raw

CacheStoreAlways(cache, key, raw, out) ==
    {e \in cache : e.key # key} \cup {[key |-> key, raw |-> raw]}

\* self.extractor_cache[cache_key] = raw_data: the statement after fetch(),
\* reached only when the constructor and fetch() returned
CacheStore(cache, key, raw, out) ==
    IF out = "ok"
    THEN {e \in cache : e.key # key} \cup {[key |-> key, raw |-> raw]}
    ELSE cache

\* what the engine logs when the try block around the cache raises
CacheFailureLog == Log("error", "Cache key generation failed")

\* the try block up to the cache test: key construction and lookup
CacheLookup ==
    /\ pc = "cache"
    /\ LET key == CacheKey(config[cur].extractor, loc.extractor_params)
       IN  IF key.raised
           THEN /\ logs' = logs \cup {CacheFailureLog}
                /\ pc' = "fallback"
                /\ UNCHANGED loc
           ELSE IF CacheHas(extractor_cache, key)
                THEN /\ logs' = logs \cup {Log("info", "Cache hit")}
                     /\ loc' = [loc EXCEPT !.cache_key = key,
                                           !.raw_data = CacheGet(extractor_cache, key)]
                     /\ pc' = "resolve_transformer"
                ELSE /\ logs' = logs \cup {Log("info", "Cache miss")}
                     /\ loc' = [loc EXCEPT !.cache_key = key]
                     /\ pc' = "fetch"
    /\ UNCHANGED <<probe, config, env, extractor_cache, calls, mode, cur, events, status,
                   fetched, result, fetch_failed>>

\* outcomes of extractor_class(params=...) followed by extractor.fetch()
FetchOutcomes == {"ok", "ExtractionError", "Exception", "constructor"}

IsFetch(e) == e.op = "fetch"

\* number of fetch() invocations made so far for the current signal
FetchCalls == Len(SelectSeq(events, IsFetch))

NewRawAt(n) == [inv |-> calls, sig |-> cur, seq |-> n]

NewRaw == NewRawAt(FetchCalls + 1)

ExtractorEvents(out) ==
    IF out = "constructor"
    THEN <<Event("construct_extractor", "ValueError", 0, NoData)>>
    ELSE <<Event("construct_extractor", "ok", 0, NoData),
           Event("fetch", out, 0, NoData)>>

\* cache miss: construct the extractor, fetch, store; any exception is
\* caught by the except clause of the cache try block
Fetch ==
    /\ pc = "fetch"
    /\ \E out \in FetchOutcomes :
         /\ events' = events \o ExtractorEvents(out)
         /\ fetched' = IF out = "constructor" THEN fetched ELSE fetched \cup {cur}
         /\ fetch_failed' = IF out \in {"ok", "constructor"} THEN fetch_failed
                          ELSE fetch_failed \cup {cur}
         /\ extractor_cache' = CacheStore(extractor_cache, loc.cache_key, NewRaw, out)
         /\ IF out = "ok"
            THEN /\ loc' = [loc EXCEPT !.raw_data = NewRaw]
                 /\ pc' = "resolve_transformer"
                 /\ UNCHANGED logs
            ELSE /\ logs' = logs \cup {CacheFailureLog}
                 /\ pc' = "fallback"
                 /\ UNCHANGED loc
    /\ UNCHANGED <<probe, config, env, calls, mode, cur, status, result>>

\* the except clause of the cache try block: construct and fetch, uncached
FetchFallback ==
    /\ pc = "fallback"
    /\ \E out \in FetchOutcomes :
         /\ events' = events \o ExtractorEvents(out)
         /\ fetched' = IF out = "constructor" THEN fetched ELSE fetched \cup {cur}
         /\ fetch_failed' = IF out \in {"ok", "constructor"} THEN fetch_failed
                          ELSE fetch_failed \cup {cur}
         /\ IF out = "ok"
            THEN /\ loc' = [loc EXCEPT !.raw_data = NewRaw]
                 /\ pc' = "resolve_transformer"
                 /\ UNCHANGED <<mode, result, status>>
            ELSE Raise(IF out = "constructor" THEN "ValueError"
                       ELSE RaisedClass(config[cur].extractor.name, out))
    /\ UNCHANGED <<probe, config, env, extractor_cache, calls, cur, logs>>

\* ------------------------------------------------------------------------
\* Transformation stage
\* ------------------------------------------------------------------------
LoaderConfigs(sc) == IF sc.has_loaders THEN sc.loaders ELSE default_loaders

\* transformer_def = signal_config["transformer"]; import or map lookup
ResolveTransformer ==
    /\ pc = "resolve_transformer"
    /\ LET transformer_def == config[cur].transformer
           found == IF transformer_def.style \in {"dict", "list"}
                    THEN <<transformer_def.module, transformer_def.class>> \in Importable
                    ELSE transformer_def.name \in transformer_map
       IN  IF found
           THEN /\ pc' = "transform"
                /\ UNCHANGED <<logs, status, mode, result>>
           ELSE /\ logs' = logs \cup
                      {Log("error", IF transformer_def.style = "name"
                                    THEN "Unknown transformer"
                                    ELSE "Failed to import transformer")}
                /\ SkipSignal
    /\ UNCHANGED <<probe, config, env, extractor_cache, calls, cur, loc, events, fetched,
                   fetch_failed>>

TransformOutcomes == {"ok", "TransformationError", "Exception"}

\* the signal_name values a transformer writes into its own output
TransformerNames == {0, -1}

InjectKeepsOwn(data, signal_name) == data

\* transformed_data.update({"signal_name": signal_name})
InjectSignalName(data, signal_name) == [data EXCEPT !.signal_name = signal_name]

\* transformer.transform(raw_data) and the injection of signal_name
Transform ==
    /\ pc = "transform"
    /\ \E out \in TransformOutcomes, own \in TransformerNames :
         /\ events' = Append(events, Event("transform", out, 0, NoData))
         /\ IF out = "ok"
            THEN /\ loc' = [loc EXCEPT
                              !.transformed_data =
                                 InjectSignalName([signal_name |-> own,
                                                   value |-> loc.raw_data], cur),
                              !.li = 1]
                 /\ pc' = IF LoaderConfigs(config[cur]) = <<>> THEN "load"
                          ELSE "build_loader"
                 /\ UNCHANGED <<mode, result, status>>
            ELSE /\ Raise(RaisedClass(config[cur].transformer.name, out))
     /\ UNCHANGED <<probe, config, env, extractor_cache, calls, cur, logs, fetched,
                   fetch_failed>>

\* ------------------------------------------------------------------------
\* Loading stage
\* ------------------------------------------------------------------------
\* the keyword arguments the engine calls a loader class with, in order,
\* until one call returns: loader_class(params=...) and, on TypeError,
\* loader_class(config=...) for a module/class entry; loader_class(config=...)
\* alone for a type entry
ConstructionAttempts(spec) ==
    IF spec.style = "module" THEN <<"params", "config">> ELSE <<"config">>

\* one iteration of the loop over loader_configs: what becomes of the entry
BuildOutcome(spec, environ) ==
    IF spec.name = "google_sheets_loader" THEN "skipped"
    ELSE IF spec.name = "supabase_loader" /\ "SUPABASE_URL" \notin environ
         THEN "init_error"
    ELSE IF spec.name \notin LoaderModules
         THEN IF spec.style = "module" THEN "import_error" ELSE "init_error"
    ELSE IF \E i \in 1..Len(ConstructionAttempts(spec)) :
               ConstructionAttempts(spec)[i] = LoaderKeyword(spec.name)
         THEN "constructed"
    ELSE "init_error"

\* loader_params / loader_specific_config after the injection of the
\* environment: url and key for a supabase_loader entry
InjectCredentials(spec) ==
    IF spec.name = "supabase_loader"
    THEN DictSet(DictSet(spec.params, UrlParam, EnvValue("SUPABASE_URL")),
                 KeyParam, EnvValue("SUPABASE_KEY"))
    ELSE spec.params

BuildLoader ==
    /\ pc = "build_loader"
    /\ LET cfgs == LoaderConfigs(config[cur])
           spec == cfgs[loc.li]
           out == BuildOutcome(spec, env)
       IN  /\ loc.li <= Len(cfgs)
           /\ config' = IF config[cur].has_loaders /\ out # "skipped"
                         THEN [config EXCEPT ![cur].loaders[loc.li].params =
                                 AfterWritesToCopy(@, InjectCredentials(spec))]
                         ELSE config
           /\ loc' = [loc EXCEPT
                        !.loaders = IF out = "constructed"
                                    THEN Append(@, [name |-> spec.name, idx |-> loc.li])
                                    ELSE @,
                        !.li = @ + 1,
                        !.lj = 1,
                        !.load_successful = TRUE]
           /\ events' = Append(events, Event("construct_loader", out, loc.li, NoData))
           /\ logs' = CASE out = "skipped" -> logs \cup {Log("info", "Skipping loader")}
                         [] out = "import_error" ->
                              logs \cup {Log("error", "Failed to import loader")}
                         [] out = "init_error" ->
                              logs \cup {Log("error", "Failed to initialize loader")}
                         [] OTHER -> logs
           /\ pc' = IF loc.li = Len(cfgs) THEN "load" ELSE "build_loader"
    /\ UNCHANGED <<probe, env, extractor_cache, calls, mode, cur, status, fetched,
                   result, fetch_failed>>

LoadOutcomes == {"ok", "LoadError", "Exception"}

LoadStepBreak(out) ==
    /\ events' = Append(events, Event("load", out, loc.loaders[loc.lj].idx,
                                       loc.transformed_data))
    /\ loc' = [loc EXCEPT !.lj = IF out = "ok" THEN @ + 1 ELSE Len(loc.loaders) + 1,
                          !.load_successful = IF out = "ok" THEN @ ELSE FALSE]
    /\ logs' = IF out = "ok" THEN logs ELSE logs \cup {Log("error", "Loader failed")}

LoadNotTrue(out) == out # "ok"

\* loader.load(transformed_data) left through one of the except clauses of
\* the loop body; the value of a load() that returns is not bound
LoadRaised(out) == out \in {"LoadError", "Exception"}

\* one iteration of the loop over loaders: loader.load(transformed_data)
LoadStep(out) ==
    /\ events' = Append(events, Event("load", out, loc.loaders[loc.lj].idx,
                                       loc.transformed_data))
    /\ loc' = [loc EXCEPT !.lj = @ + 1,
                          !.load_successful = IF LoadRaised(out) THEN FALSE ELSE @]
    /\ logs' = CASE out = "LoadError" -> logs \cup {Log("error", "Loader failed")}
                  [] out = "Exception" ->
                       logs \cup {Log("error", "Unexpected error in loader")}
                  [] OTHER -> logs

Load ==
    /\ pc = "load"
    /\ loc.lj <= Len(loc.loaders)
    /\ \E out \in LoadOutcomes : LoadStep(out)
    /\ UNCHANGED <<probe, config, env, extractor_cache, calls, mode, pc, cur, status,
                   fetched, result, fetch_failed>>

\* what run_signal returns after the loading loop
ReturnAfterLoad(load_successful) == "True"

SuccessThenWarning(load_successful) ==
    IF load_successful THEN {Log("info", "SUCCESS")}
    ELSE {Log("info", "SUCCESS"), Log("warning", "processed but failed to load")}

\* if load_successful: log_etl_success(signal_name) else: logger.warning(...)
ReportLogs(load_successful) ==
    IF load_successful THEN {Log("info", "SUCCESS")}
    ELSE {Log("warning", "processed but failed to load")}

\* after the loop over loaders: log_etl_success or the warning
Report ==
    /\ pc = "load"
    /\ loc.lj > Len(loc.loaders)
    /\ logs' = logs \cup ReportLogs(loc.load_successful)
    /\ IF loc.load_successful
       THEN Terminal("SUCCEEDED", ReturnAfterLoad(TRUE))
       ELSE Terminal("PARTIAL", ReturnAfterLoad(FALSE))
    /\ UNCHANGED <<probe, config, env, extractor_cache, calls, cur, loc, events, fetched,
                   fetch_failed>>

\* ------------------------------------------------------------------------
\* The except clauses at the signal boundary
\* ------------------------------------------------------------------------
\* arguments of the log_etl_failure call in run() and in run_signal()
RunFailureArgs == 2

RunSignalFailureArgs == 3

FailureCategory(e) ==
    CASE e = "TransformationError" -> "Transform error"
      [] e = "LoadError" -> "Load error"
      [] e = "ExtractionError" -> "Extract error"
      [] OTHER -> "Failed to process signal"

FailureCallBindsFewer(nargs) == nargs < LogEtlFailureParams

\* calling log_etl_failure with nargs positional arguments
FailureCallBinds(nargs) == nargs = LogEtlFailureParams

HandleException ==
    /\ pc = "except"
    /\ LET nargs == IF mode = "run" THEN RunFailureArgs ELSE RunSignalFailureArgs
           first == IF mode = "run" THEN {}
                    ELSE {Log("error", FailureCategory(loc.exc))}
       IN  IF FailureCallBinds(nargs)
           THEN /\ logs' = logs \cup first \cup
                             {Log("error", "FAILURE"),
                              Log("error", FailureCategory(loc.exc))}
                /\ Terminal("FAILED", "False")
           ELSE \* TypeError raised inside the except clause leaves the method
                /\ logs' = logs \cup first
                /\ status' = [status EXCEPT ![cur] = "FAILED"]
                /\ pc' = "idle"
                /\ mode' = "idle"
                /\ result' = Result(mode, "raised")
    /\ UNCHANGED <<probe, config, env, extractor_cache, calls, cur, loc, events, fetched,
                   fetch_failed>>

Next ==
    \/ Run
    \/ \E signal_name \in Signals \cup {Nonexistent} : RunSignal(signal_name)
    \/ NextSignal
    \/ RunReturn
    \/ ResolveExtractor
    \/ ResolveSecrets
    \/ CacheLookup
    \/ Fetch
    \/ FetchFallback
    \/ ResolveTransformer
    \/ Transform
    \/ BuildLoader
    \/ Load
    \/ Report
    \/ HandleException

Spec == Init /\ [][Next]_vars

\* ------------------------------------------------------------------------
\* Observations used by the properties
\* ------------------------------------------------------------------------
TerminalStates == {"SUCCEEDED", "PARTIAL", "FAILED"}

\* run() has just finished the body of the loop for signal cur
SignalDoneInRun == mode = "run" /\ pc = "next" /\ cur \in Signals

\* run() has returned or raised
RunEnded == result.call = "run" /\ mode = "idle"

\* run_signal() has returned or raised for a configured signal
RunSignalEnded == result.call = "run_signal" /\ mode = "idle" /\ cur \in Signals

EventIdx(op) == {i \in 1..Len(events) : events[i].op = op}

ExtractorResolves(sc) ==
    IF sc.extractor.style = "dict"
    THEN <<sc.extractor.module, sc.extractor.class>> \in Importable
    ELSE sc.extractor.name \in extractor_map

TransformerResolves(sc) ==
    IF sc.transformer.style \in {"dict", "list"}
    THEN <<sc.transformer.module, sc.transformer.class>> \in Importable
    ELSE sc.transformer.name \in transformer_map

\* the secrets the engine asks the secrets manager for are all set
SecretsPresent(sc, environ) ==
    sc.extractor.style = "dict"
    \/ \A i \in 1..Len(sc.secrets) : sc.secrets[i] \in environ

\* every fetch() made for the current signal raised ExtractionError, and
\* nothing else of the signal failed before
OnlyExtractorRaised ==
    /\ ExtractorResolves(config[cur])
    /\ SecretsPresent(config[cur], env)
    /\ EventIdx("fetch") # {}
    /\ \A i \in EventIdx("fetch") : events[i].out = "ExtractionError"
    /\ \A i \in EventIdx("construct_extractor") : events[i].out = "ok"

\* the signal resolves and no plugin call before its loading stage raised
NothingRaisedBeforeLoad ==
    /\ ExtractorResolves(config[cur])
    /\ SecretsPresent(config[cur], env)
    /\ TransformerResolves(config[cur])
    /\ \A i \in 1..Len(events) :
          events[i].op \in {"construct_extractor", "fetch", "transform"}
             => events[i].out = "ok"

\* ------------------------------------------------------------------------
\* C1: run() returns normally after every signal has reached a terminal
\* state, whichever plugins raise; a signal whose extractor raises
\* ExtractionError at every fetch ends FAILED, and a signal none of whose
\* plugins raises before the loading stage ends SUCCEEDED or PARTIAL.
\* ------------------------------------------------------------------------
C1_RunIsolatesFailures ==
    /\ result.call = "run" => result.value # "raised"
    /\ RunEnded => /\ result.value = "None"
                   /\ \A i \in Signals : status[i] \in TerminalStates
    /\ SignalDoneInRun =>
          /\ status[cur] \in TerminalStates
          /\ \A i \in 1..(cur - 1) : status[i] \in TerminalStates
          /\ OnlyExtractorRaised => status[cur] = "FAILED"
          /\ NothingRaisedBeforeLoad => status[cur] \in {"SUCCEEDED", "PARTIAL"}

\* run() returned None; the last signal's extractor raised ExtractionError
\* at every fetch and the signal is FAILED, the first signal is SUCCEEDED.
C1_Witness ==
    /\ RunEnded
    /\ result.value = "None"
    /\ status[1] = "SUCCEEDED"
    /\ status[NumSignals] = "FAILED"
    /\ OnlyExtractorRaised

\* the extractor identity and the parameter mapping a signal's extractor is
\* constructed with
ExtractorIdent(sc) ==
    IF sc.extractor.style = "dict" THEN <<sc.extractor.module, sc.extractor.class>>
    ELSE <<sc.extractor.name>>

EffectiveParams(sc, environ) ==
    IF sc.extractor.style = "dict" THEN sc.extractor.params
    ELSE MergeSecrets(sc.extractor_params, sc.secret_mapping,
                      {sc.secrets[i] : i \in 1..Len(sc.secrets)} \cap environ)

\* equality of two flat mappings, whatever the order they were written in
SameMapping(d1, d2) ==
    {d1.items[i] : i \in 1..Len(d1.items)} = {d2.items[i] : i \in 1..Len(d2.items)}

\* signals i and j have identical (extractor, params); a signal whose
\* declared secrets cannot be resolved gets no parameter mapping at all
SameRequest(i, j) ==
    /\ ExtractorResolves(config[i])
    /\ SecretsPresent(config[i], env)
    /\ SecretsPresent(config[j], env)
    /\ ExtractorIdent(config[i]) = ExtractorIdent(config[j])
    /\ SameMapping(EffectiveParams(config[i], env), EffectiveParams(config[j], env))

PastCacheLookup == pc \notin {"resolve_extractor", "secrets", "cache"}

C3_NoRetryOfFetch ==
    cur \in Signals =>
       /\ FetchCalls <= 1
       /\ Cardinality(EventIdx("construct_extractor")) <= 1

\* ------------------------------------------------------------------------
\* C4: run_signal(name) never raises for a configured signal; when a plugin
\* call of the signal raised an exception that ended the signal, it
\* returns False.
\* ------------------------------------------------------------------------
C4_RunSignalReturnsFalse ==
    (RunSignalEnded /\ loc.exc # "none"
       /\ \E i \in 1..Len(events) : events[i].out = loc.exc)
    => result.value = "False"

LoadEvents == SelectSeq(events, LAMBDA e : e.op = "load")

\* the entry at position k of the loaders list was constructed and its
\* load() completed without raising
LoaderSucceeded(k) ==
    /\ \E i \in EventIdx("construct_loader") :
          events[i].who = k /\ events[i].out = "constructed"
    /\ \E i \in EventIdx("load") : events[i].who = k /\ events[i].out = "ok"

\* the signal cur has just been reported, by run() or by run_signal()
SignalReported == SignalDoneInRun \/ RunSignalEnded

\* ------------------------------------------------------------------------
\* C5: a signal is reported SUCCEEDED only if, for every entry of its
\* loaders list (or the default loader), a loader was constructed and its
\* load() completed without raising.
\* ------------------------------------------------------------------------
C5_SuccessMeansAllLoadersSucceeded ==
    (SignalReported /\ status[cur] = "SUCCEEDED") =>
       \A k \in 1..Len(LoaderConfigs(config[cur])) : LoaderSucceeded(k)

\* ------------------------------------------------------------------------
\* C6: load() is invoked on each constructed loader exactly once, in
\* configured order, whether or not an earlier load() raised; if one of
\* them raised the signal is reported PARTIAL, not SUCCEEDED.
\* ------------------------------------------------------------------------
C6_EveryLoaderIsInvoked ==
    /\ (cur \in Signals /\ pc = "load") =>
          /\ Len(LoadEvents) = loc.lj - 1
          /\ \A k \in 1..Len(LoadEvents) : LoadEvents[k].who = loc.loaders[k].idx
    /\ (SignalReported /\ EventIdx("transform") # {}
          /\ \A i \in EventIdx("transform") : events[i].out = "ok") =>
          /\ Len(LoadEvents) = Len(loc.loaders)
          /\ \A k \in 1..Len(LoadEvents) : LoadEvents[k].who = loc.loaders[k].idx
          /\ \A k \in 1..(Len(loc.loaders) - 1) :
                loc.loaders[k].idx < loc.loaders[k + 1].idx
          /\ (\E k \in 1..Len(LoadEvents) : LoadEvents[k].out # "ok")
                => status[cur] = "PARTIAL"

\* two loaders were constructed, the first load() raised LoadError, the
\* second was still invoked, and the signal is reported PARTIAL
C6_Witness ==
    /\ SignalReported
    /\ Len(LoadEvents) = 2
    /\ LoadEvents[1].out = "LoadError"
    /\ LoadEvents[2].out = "ok"
    /\ status[cur] = "PARTIAL"

\* ------------------------------------------------------------------------
\* C7: run_signal(name) returns True only when the signal reached
\* SUCCEEDED.
\* ------------------------------------------------------------------------
C7_TrueOnlyOnFullSuccess ==
    (RunSignalEnded /\ result.value = "True") => status[cur] = "SUCCEEDED"

\* an invocation of run_signal that returns at once: the name is unknown
UnknownSignalStep == mode = "idle" /\ mode' = "idle" /\ calls' = calls + 1

\* ------------------------------------------------------------------------
\* C8 (as stated): run_signal(name) for a name that is not configured
\* returns False, invokes no plugin and leaves the extraction cache exactly
\* as it was before the call.
\* ------------------------------------------------------------------------
C8_UnknownSignalKeepsCache ==
    [][UnknownSignalStep =>
          /\ result' = Result("run_signal", "False")
          /\ events' = <<>>
          /\ extractor_cache' = extractor_cache]_vars

\* ------------------------------------------------------------------------
\* C8 (amended): run_signal(name) for a name that is not configured
\* returns False without raising, invokes no plugin and reports no signal;
\* it leaves the extraction cache empty, because the cache is cleared
\* before the name is looked up.
\* ------------------------------------------------------------------------
C8_UnknownSignalClearsCache ==
    [][UnknownSignalStep =>
          /\ result' = Result("run_signal", "False")
          /\ events' = <<>>
          /\ \A i \in Signals : status'[i] = "PENDING"
          /\ extractor_cache' = {}]_vars

\* run_signal returned False for the unknown name, as the second
\* invocation on this engine, and the cache is empty
C8_Witness ==
    /\ result = Result("run_signal", "False")
    /\ mode = "idle"
    /\ cur = 0
    /\ calls = 2
    /\ logs = {Log("error", "Signal not found in configuration")}
    /\ extractor_cache = {}

\* ------------------------------------------------------------------------
\* C9: when a secret the signal declares is absent from the environment,
\* the engine logs the missing-secret warning and still constructs the
\* extractor; the signal does not fail before the extractor is constructed.
\* ------------------------------------------------------------------------
C9_MissingSecretReachesExtraction ==
    (cur \in Signals /\ ExtractorResolves(config[cur])
       /\ ~SecretsPresent(config[cur], env)
       /\ (pc = "except" \/ status[cur] = "FAILED")) =>
       /\ Log("warning", "Secret not found") \in logs
       /\ EventIdx("construct_extractor") # {}

\* key construction raises for the parameters of the current signal
KeyFails == CacheKey(config[cur].extractor, loc.extractor_params).raised

\* ------------------------------------------------------------------------
\* C10: if constructing the cache key raises, the engine performs one
\* direct, uncached fetch() and the signal goes on to transformation; the
\* failure is logged as a warning, not as an error, and no cache entry is
\* written.
\* ------------------------------------------------------------------------
C10_KeyFailureIsAWarning ==
    (cur \in Signals /\ mode # "idle" /\ PastCacheLookup /\ pc # "next" /\ KeyFails) =>
       /\ Log("warning", "Cache key generation failed") \in logs
       /\ Log("error", "Cache key generation failed") \notin logs
       /\ \A e \in extractor_cache : e.raw.sig # cur
       /\ pc # "fallback" => FetchCalls = 1
       /\ (pc \in {"resolve_transformer", "transform"}) => loc.raw_data = NewRawAt(1)

\* the current signal got its raw record from the cache: it is past the
\* cache lookup and no extractor was constructed for it
CacheHit ==
    /\ cur \in Signals
    /\ pc \in {"resolve_transformer", "transform", "build_loader", "load"}
    /\ EventIdx("construct_extractor") = {}

\* the cache key the engine computes for configured signal i
SignalKey(i) == CacheKey(config[i].extractor, EffectiveParams(config[i], env))

\* ------------------------------------------------------------------------
\* C11: a failed fetch leaves no cache entry.  Every cache entry holds a
\* record that a fetch() of the current invocation returned, stored under
\* the key of the signal that fetched it, and no entry belongs to a signal
\* whose fetch() raised; a signal gets a cache hit only with the record of
\* an earlier signal with the same request whose fetch() returned.
\* ------------------------------------------------------------------------
C11_FailedFetchLeavesNoEntry ==
    /\ \A e \in extractor_cache :
          /\ e.raw.inv = calls
          /\ e.raw.sig \in fetched \ fetch_failed
          /\ e.key = SignalKey(e.raw.sig)
    /\ CacheHit =>
          \E k \in 1..(cur - 1) :
             /\ SameRequest(k, cur)
             /\ k \in fetched \ fetch_failed
             /\ loc.raw_data.sig = k
             /\ [key |-> SignalKey(cur), raw |-> loc.raw_data] \in extractor_cache

\* the first signal's fetch() raised; the second signal, with the same
\* request, missed the cache, fetched for itself and stored its record
C11_Witness ==
    /\ mode = "run"
    /\ cur = 2
    /\ pc = "transform"
    /\ SameRequest(1, 2)
    /\ 1 \in fetch_failed
    /\ 2 \in fetched \ fetch_failed
    /\ extractor_cache = {[key |-> SignalKey(2), raw |-> loc.raw_data]}
    /\ loc.raw_data.sig = 2

\* ------------------------------------------------------------------------
\* C12: the extraction cache never carries entries across invocations.
\* Every step that starts an invocation of run() or run_signal() leaves the
\* cache empty, every entry was fetched during the invocation in progress,
\* and a cache hit never returns a record of an earlier invocation.
\* ------------------------------------------------------------------------
C12_CacheClearedEveryInvocation ==
    [][/\ calls' = calls + 1 => extractor_cache' = {}
       /\ \A e \in extractor_cache' : e.raw.inv = calls'
       /\ CacheHit' => loc'.raw_data.inv = calls']_vars

\* second invocation on the engine, a run_signal(): the signal missed the
\* cache, fetched for itself, and the cache holds that record only
C12_Witness ==
    /\ calls = 2
    /\ mode = "run_signal"
    /\ pc = "transform"
    /\ events = ExtractorEvents("ok")
    /\ loc.raw_data = NewRawAt(1)
    /\ extractor_cache = {[key |-> SignalKey(cur), raw |-> loc.raw_data]}

\* ------------------------------------------------------------------------
\* C13: every record passed to a loader's load() carries a signal_name
\* equal to the name of the configured signal being processed, whatever
\* signal_name the transformer wrote (or did not write) in its output.
\* ------------------------------------------------------------------------
C13_LoadersSeeConfiguredName ==
    \A i \in EventIdx("load") :
       /\ events[i].data.signal_name = cur
       /\ events[i].data.signal_name \notin TransformerNames
       /\ events[i].data = loc.transformed_data

\* two loaders were handed the record; it carries the configured name of
\* the second signal, which no transformer writes
C13_Witness ==
    /\ cur = 2
    /\ Len(LoadEvents) = 2
    /\ \A i \in EventIdx("load") : events[i].data.signal_name = 2
    /\ 2 \notin TransformerNames

\* an error record was logged for the unresolved plugin of the signal
ResolutionErrorLogged ==
    \E l \in logs :
       /\ l.level = "error"
       /\ l.msg \in {"Unknown extractor", "Failed to import extractor",
                     "Unknown transformer", "Failed to import transformer"}

\* ------------------------------------------------------------------------
\* C14: a signal whose extractor or transformer cannot be resolved is
\* skipped with a logged error.  No plugin is invoked for a signal whose
\* extractor does not resolve, no transform() or loader call is made for a
\* signal whose transformer does not resolve, the signal ends FAILED with
\* the error logged, and run() still brings every signal to a terminal
\* state and returns without raising.
\* ------------------------------------------------------------------------
C14_UnresolvedPluginSkipsSignal ==
    /\ (cur \in Signals /\ ~ExtractorResolves(config[cur])) =>
          /\ events = <<>>
          /\ pc \in {"resolve_extractor", "next", "idle"}
          /\ pc # "resolve_extractor" =>
                status[cur] = "FAILED" /\ ResolutionErrorLogged
    /\ (cur \in Signals /\ ~TransformerResolves(config[cur])) =>
          /\ EventIdx("transform") \cup EventIdx("construct_loader")
                \cup EventIdx("load") = {}
          /\ pc \notin {"transform", "build_loader", "load"}
          /\ status[cur] \in {"PENDING", "FAILED"}
          /\ (status[cur] = "FAILED" /\ loc.raw_data # NoRaw) => ResolutionErrorLogged
    /\ (result.call = "run" /\ \E i \in Signals :
            ~ExtractorResolves(config[i]) \/ ~TransformerResolves(config[i])) =>
          /\ result.value # "raised"
          /\ RunEnded => \A i \in Signals : status[i] \in TerminalStates

\* run() returned: the first signal's extractor did not resolve and the
\* signal was skipped, the second signal was processed and SUCCEEDED
C14_Witness ==
    /\ RunEnded
    /\ result.value = "None"
    /\ ~ExtractorResolves(config[1])
    /\ status[1] = "FAILED"
    /\ status[2] = "SUCCEEDED"
    /\ EventIdx("load") # {}

\* the stage a plugin call belongs to
StageOf(op) ==
    CASE op \in {"construct_extractor", "fetch"} -> 1
      [] op = "transform" -> 2
      [] OTHER -> 3

\* ------------------------------------------------------------------------
\* C15: for each signal the stages occur only in the order extract,
\* transform, load.  transform() is invoked only once the raw record was
\* obtained, loaders are constructed and load() invoked only after
\* transform() returned and signal_name was injected, no stage is invoked
\* after the signal reached a terminal state, and a signal for which a
\* fetch() raised goes to FAILED with no transform() or load() call.
\* ------------------------------------------------------------------------
C15_StagesInOrder ==
    cur \in Signals =>
       /\ \A i, j \in 1..Len(events) :
             i < j => StageOf(events[i].op) <= StageOf(events[j].op)
       /\ EventIdx("transform") # {} => loc.raw_data # NoRaw
       /\ \A i \in EventIdx("construct_loader") \cup EventIdx("load") :
             /\ \E j \in 1..(i - 1) : events[j].op = "transform" /\ events[j].out = "ok"
             /\ loc.transformed_data.signal_name = cur
       /\ status[cur] \in TerminalStates => pc \in {"next", "idle"}
       /\ cur \in fetch_failed =>
             /\ EventIdx("transform") \cup EventIdx("load") = {}
             /\ pc \in {"fetch", "fallback", "except", "next", "idle"}
             /\ pc \in {"next", "idle"} => status[cur] = "FAILED"

\* a step in which the engine calls a plugin
PluginCallStep == events' # events /\ events' # <<>>

\* ------------------------------------------------------------------------
\* C16: run() processes the signals one at a time in configured order.
\* Every plugin call is made for the current signal, which has not reached
\* a terminal state, while all earlier signals have and no later signal has
\* been started; run() moves from a signal only to the next configured one,
\* and only when the signal has reached a terminal state.
\* ------------------------------------------------------------------------
C16_OneSignalAtATime ==
    [][/\ (mode = "run" /\ PluginCallStep) =>
             /\ cur' = cur
             /\ cur \in Signals
             /\ status[cur] = "PENDING"
             /\ \A i \in 1..(cur - 1) : status[i] \in TerminalStates
             /\ \A i \in (cur + 1)..NumSignals : status[i] = "PENDING"
       /\ (mode = "run" /\ cur' # cur) =>
             /\ cur' = cur + 1
             /\ events' = <<>>
             /\ cur \in Signals => status[cur] \in TerminalStates]_vars

\* run() is making plugin calls for the second signal after the first one,
\* for which it fetched, reached a terminal state
C16_Witness ==
    /\ mode = "run"
    /\ cur = 2
    /\ EventIdx("fetch") # {}
    /\ status[2] = "PENDING"
    /\ 1 \in fetched
    /\ status[1] \in TerminalStates

\* ------------------------------------------------------------------------
\* Direct calls of _make_hashable_key: a parameter mapping a, and a mapping
\* b obtained from a by writing the entries of its dicts in another order
\* ------------------------------------------------------------------------
\* engine state while a function is called directly: nothing is running
EngineIdle ==
    /\ config = [i \in Signals |-> BaseConfig]
    /\ env = {}
    /\ extractor_cache = {}
    /\ calls = 0
    /\ mode = "idle"
    /\ pc = "idle"
    /\ cur = 0
    /\ loc = InitLoc
    /\ events = <<>>
    /\ logs = {}
    /\ status = [i \in Signals |-> "PENDING"]
    /\ fetched = {}
    /\ fetch_failed = {}
    /\ result = Result("none", "none")

KeyNames == {StrV(1), StrV(2), IntV(1)}

\* parameter values: primitives, nested dicts and lists, with and without
\* keys of mixed types
ParamValues ==
    {IntV(1), StrV(1), Dict(<<>>), PA, PMixed, List(<<IntV(1), StrV(1)>>),
     List(<<PA>>), List(<<PMixed>>)}

PairSeqs(n) ==
    {s \in [1..n -> {Pair(k, v) : k \in KeyNames, v \in ParamValues}] :
        \A i, j \in 1..n : i # j => s[i].items[1] # s[j].items[1]}

ParamMappings == {Dict(s) : s \in UNION {PairSeqs(n) : n \in 0..MaxKeys}}

\* the key not computed yet
NotCalled == [t |-> "none", n |-> 0, items |-> <<>>]

\* s with its elements i and i + 1 exchanged
Swap(s, i) ==
    [k \in 1..Len(s) |-> IF k = i THEN s[i + 1] ELSE IF k = i + 1 THEN s[i] ELSE s[k]]

\* the same value with the entries of its (first) dict written the other
\* way round; list elements keep their positions
SwapInner(v) ==
    IF v.t = "dict" /\ Len(v.items) >= 2 THEN Dict(Swap(v.items, 1))
    ELSE IF v.t = "list" /\ Len(v.items) >= 1 /\ v.items[1].t = "dict"
            /\ Len(v.items[1].items) >= 2
         THEN List([v.items EXCEPT ![1] = Dict(Swap(v.items[1].items, 1))])
    ELSE v

KeyInit ==
    /\ EngineIdle
    /\ probe \in {[fn |-> "_make_hashable_key", a |-> m, b |-> m,
                    ka |-> NotCalled, kb |-> NotCalled] : m \in ParamMappings}

\* exchange two neighbouring entries of the mapping b
ReorderTop ==
    /\ probe.ka = NotCalled
    /\ \E i \in 1..(Len(probe.b.items) - 1) :
          probe' = [probe EXCEPT !.b = Dict(Swap(probe.b.items, i))]
    /\ UNCHANGED engine_vars

\* exchange the entries of a dict nested in the mapping b
ReorderNested ==
    /\ probe.ka = NotCalled
    /\ \E i \in 1..Len(probe.b.items) :
          /\ SwapInner(probe.b.items[i].items[2]) # probe.b.items[i].items[2]
          /\ probe' = [probe EXCEPT !.b =
                          Dict([probe.b.items EXCEPT ![i] =
                                  Pair(@.items[1], SwapInner(@.items[2]))])]
    /\ UNCHANGED engine_vars

\* self._make_hashable_key(a) and self._make_hashable_key(b)
CallMakeHashableKey ==
    /\ probe.ka = NotCalled
    /\ probe' = [probe EXCEPT !.ka = MakeHashableKey(probe.a),
                              !.kb = MakeHashableKey(probe.b)]
    /\ UNCHANGED engine_vars

KeyNext == ReorderTop \/ ReorderNested \/ CallMakeHashableKey

KeySpec == KeyInit /\ [][KeyNext]_vars

KeysComputed == probe.ka # NotCalled

\* ------------------------------------------------------------------------
\* C17 (as stated): for any two structurally equal parameter mappings,
\* whatever the order their dicts were written in, _make_hashable_key
\* yields a key for each and the two keys are equal.
\* ------------------------------------------------------------------------
C17_EqualMappingsYieldEqualKeys ==
    KeysComputed =>
       /\ ~IsRaised(probe.ka)
       /\ ~IsRaised(probe.kb)
       /\ probe.ka = probe.kb

\* ------------------------------------------------------------------------
\* C17 (amended): _make_hashable_key is insensitive to the order in which
\* dicts are written.  When every dict of the mapping, at any depth, has
\* keys of one type, two structurally equal mappings yield equal keys; when
\* some dict mixes key types, the call raises TypeError for every ordering
\* of the mapping and yields no key.
\* ------------------------------------------------------------------------
C17_OrderInsensitiveWhenKeysComparable ==
    KeysComputed =>
       /\ IsRaised(probe.ka) <=> AnyMixed(probe.a)
       /\ IsRaised(probe.kb) <=> AnyMixed(probe.a)
       /\ ~AnyMixed(probe.a) => probe.ka = probe.kb /\ probe.ka.t = "tuple"

\* keys were computed for a mapping and a rewriting of it with the top
\* level entries and the entries of both nested dicts exchanged
C17_Witness ==
    /\ probe.fn = "_make_hashable_key"
    /\ probe.a = Dict(<<Pair(StrV(1), PA), Pair(StrV(2), List(<<PA>>))>>)
    /\ probe.b = Dict(<<Pair(StrV(2), List(<<PB>>)), Pair(StrV(1), PB)>>)
    /\ probe.ka = probe.kb
    /\ probe.ka.t = "tuple"

\* ------------------------------------------------------------------------
\* main(): one invocation on a freshly constructed engine, run_signal when
\* --signal is given and run otherwise; return 0 after the call returned,
\* return 1 from the except clauses when it raised
\* ------------------------------------------------------------------------
ExitCode(res) == IF res.value = "raised" THEN 1 ELSE 0

\* the invocation main() made on its engine has ended
MainEnded == calls = 1 /\ mode = "idle" /\ result.call # "none"

\* ------------------------------------------------------------------------
\* C18: main() returns exit code 0 once the engine has processed its
\* signals, also when signals failed, on the all-signals path and on the
\* --signal path (the configuration file exists in every state here).
\* ------------------------------------------------------------------------
C18_ExitZeroWhenSignalsFail ==
    MainEnded => ExitCode(result) = 0

\* ------------------------------------------------------------------------
\* Direct calls of _process_env_vars.  A string is a sequence of
\* characters; a variable name and a variable's value are written with one
\* character each ("A", "B" and "a", "b").
\* ------------------------------------------------------------------------
NameChars == {"A", "B", "a", "b", "_"}

Spaces == {" "}

VarNames == {<<"A">>, <<"B">>}

\* the environment of a direct call: every variable is unset, set to the
\* empty string, or set to a value
EnvStates == {"unset", "empty", "value"}

OtherName(name) == IF name = <<"A">> THEN <<"B">> ELSE <<"A">>

\* os.getenv(var_name): None, the empty string or the value; a value may
\* itself be the text of a reference to the other variable ("dollar":
\* ${OTHER}, "curly": {{OTHER}})
GetEnv(environ, name) ==
    IF name \notin VarNames \/ environ[name] = "unset" THEN [none |-> TRUE, v |-> <<>>]
    ELSE IF environ[name] = "empty" THEN [none |-> FALSE, v |-> <<>>]
    ELSE IF environ[name] = "dollar"
         THEN [none |-> FALSE, v |-> <<"$", "{">> \o OtherName(name) \o <<"}">>]
    ELSE IF environ[name] = "curly"
         THEN [none |-> FALSE,
               v |-> <<"{", "{">> \o OtherName(name) \o <<"}", "}">>]
    ELSE [none |-> FALSE, v |-> IF name = <<"A">> THEN <<"a">> ELSE <<"b">>]

\* truth value of os.getenv(var_name) in "if env_value:"
Truthy(x) == ~x.none /\ x.v # <<>>

\* the first position from i on whose character is not in set
RECURSIVE SkipWhile(_, _, _)
SkipWhile(str, i, set) ==
    IF i <= Len(str) /\ str[i] \in set THEN SkipWhile(str, i + 1, set) ELSE i

At(str, i) == IF i >= 1 /\ i <= Len(str) THEN str[i] ELSE ""

\* a match of \{\{\s*([A-Za-z0-9_]+)\s*\}\} starting at position i
MatchCurlyAt(str, i) ==
    LET j == SkipWhile(str, i + 2, Spaces)
        k == SkipWhile(str, j, NameChars)
        m == SkipWhile(str, k, Spaces)
    IN  [ok |-> /\ At(str, i) = "{" /\ At(str, i + 1) = "{"
                /\ k > j
                /\ At(str, m) = "}" /\ At(str, m + 1) = "}",
         name |-> SubSeq(str, j, k - 1),
         next |-> m + 2]

\* a match of \$\{([A-Za-z0-9_]+)\} starting at position i
MatchDollarAt(str, i) ==
    LET k == SkipWhile(str, i + 2, NameChars)
    IN  [ok |-> /\ At(str, i) = "$" /\ At(str, i + 1) = "{"
                /\ k > i + 2
                /\ At(str, k) = "}",
         name |-> SubSeq(str, i + 2, k - 1),
         next |-> k + 1]

\* re.findall: the groups of the non-overlapping matches, left to right
RECURSIVE FindAll(_, _, _)
FindAll(curly, str, i) ==
    IF i > Len(str) THEN <<>>
    ELSE LET m == IF curly THEN MatchCurlyAt(str, i) ELSE MatchDollarAt(str, i)
         IN  IF m.ok THEN <<m.name>> \o FindAll(curly, str, m.next)
             ELSE FindAll(curly, str, i + 1)

\* str.replace(old, new): every non-overlapping occurrence, left to right
RECURSIVE Replace(_, _, _)
Replace(str, old, new) ==
    IF Len(str) < Len(old) THEN str
    ELSE IF SubSeq(str, 1, Len(old)) = old
         THEN new \o Replace(SubSeq(str, Len(old) + 1, Len(str)), old, new)
    ELSE <<Head(str)>> \o Replace(Tail(str), old, new)

\* the loop over the {{ VAR }} matches: f'{{ {var_name} }}' is the text
\* "{ VAR }" and f'{{{{{var_name}}}}}' is the text "{{VAR}}"
RECURSIVE ReplaceCurly(_, _, _)
ReplaceCurly(res, matches, environ) ==
    IF matches = <<>> THEN res
    ELSE LET var_name == Head(matches)
             env_value == GetEnv(environ, var_name)
         IN  ReplaceCurly(
                IF Truthy(env_value)
                THEN Replace(Replace(res, <<"{", " ">> \o var_name \o <<" ", "}">>,
                                     env_value.v),
                             <<"{", "{">> \o var_name \o <<"}", "}">>, env_value.v)
                ELSE res,
                Tail(matches), environ)

\* the loop over the ${VAR} matches
RECURSIVE ReplaceDollar(_, _, _)
ReplaceDollar(res, matches, environ) ==
    IF matches = <<>> THEN res
    ELSE LET var_name == Head(matches)
             env_value == GetEnv(environ, var_name)
         IN  ReplaceDollar(
                IF Truthy(env_value)
                THEN Replace(res, <<"$", "{">> \o var_name \o <<"}">>, env_value.v)
                ELSE res,
                Tail(matches), environ)

\* the str branch of _process_env_vars
ProcessEnvString(str, environ) ==
    LET res == ReplaceCurly(str, FindAll(TRUE, str, 1), environ)
    IN  ReplaceDollar(res, FindAll(FALSE, res, 1), environ)

\* ETLEngine._process_env_vars on a string, a list or dict holding the
\* string, or a value of another type
ProcessEnvVars(config_data, environ) ==
    CASE config_data.t = "str" ->
           [config_data EXCEPT !.s = ProcessEnvString(config_data.s, environ)]
      [] config_data.t \in {"list", "dict"} ->
           [config_data EXCEPT !.s = ProcessEnvString(config_data.s, environ)]
      [] OTHER -> config_data

\* the log records _process_env_vars writes: it has no logging statement
EnvVarLogs(config_data, environ) == {}

\* a configuration string is written as a sequence of pieces: plain text,
\* a {{NAME}} reference with l spaces before and r spaces after the name,
\* or a ${NAME} reference
Pieces ==
    {[kind |-> "text", name |-> <<>>, l |-> 0, r |-> 0]}
    \cup {[kind |-> "curly", name |-> nm, l |-> l, r |-> r] :
             nm \in VarNames, l \in 0..1, r \in 0..1}
    \cup {[kind |-> "dollar", name |-> nm, l |-> 0, r |-> 0] : nm \in VarNames}

SpacesOf(n) == [i \in 1..n |-> " "]

PieceText(p) ==
    CASE p.kind = "curly" ->
           <<"{", "{">> \o SpacesOf(p.l) \o p.name \o SpacesOf(p.r) \o <<"}", "}">>
      [] p.kind = "dollar" -> <<"$", "{">> \o p.name \o <<"}">>
      [] OTHER -> <<"/">>

RECURSIVE Flatten(_)
Flatten(ps) == IF ps = <<>> THEN <<>> ELSE PieceText(Head(ps)) \o Flatten(Tail(ps))

PieceSeqs == UNION {[1..n -> Pieces] : n \in 0..MaxPieces}

Environs == [VarNames -> EnvStates]

NotReturned == [t |-> "none", s |-> <<>>]

EnvInit ==
    /\ EngineIdle
    /\ probe \in
          {[fn |-> "_process_env_vars", pieces |-> ps, environ |-> e,
            arg |-> [t |-> ty, s |-> Flatten(ps)], ret |-> NotReturned,
            logged |-> {}] :
             ps \in PieceSeqs, e \in Environs, ty \in {"str", "list", "dict"}}
          \cup
          {[fn |-> "_process_env_vars", pieces |-> <<>>, environ |-> e,
            arg |-> [t |-> "int", s |-> <<>>], ret |-> NotReturned,
            logged |-> {}] : e \in Environs}

\* self._process_env_vars(config_data)
CallProcessEnvVars ==
    /\ probe.ret = NotReturned
    /\ probe' = [probe EXCEPT !.ret = ProcessEnvVars(probe.arg, probe.environ),
                              !.logged = EnvVarLogs(probe.arg, probe.environ)]
    /\ UNCHANGED engine_vars

EnvNext == CallProcessEnvVars

EnvSpec == EnvInit /\ [][EnvNext]_vars

\* what the references of the string stand for: the value of a variable
\* that is set, the reference itself when the variable is not set
RECURSIVE Resolved(_, _)
Resolved(ps, environ) ==
    IF ps = <<>> THEN <<>>
    ELSE (IF Head(ps).kind # "text" /\ environ[Head(ps).name] # "unset"
          THEN GetEnv(environ, Head(ps).name).v
          ELSE PieceText(Head(ps))) \o Resolved(Tail(ps), environ)

UnsetReferences(ps, environ) ==
    {i \in 1..Len(ps) : ps[i].kind # "text" /\ environ[ps[i].name] = "unset"}

\* ------------------------------------------------------------------------
\* C19: _process_env_vars replaces every {{NAME}} (with or without spaces
\* around the name) and every ${NAME} of a string-valued field by the value
\* of the environment variable NAME when it is set, leaves a reference to a
\* variable that is not set unchanged and logs a warning for it.
\* ------------------------------------------------------------------------
C19_ReferencesResolved ==
    probe.ret # NotReturned =>
       /\ probe.ret.t = probe.arg.t
       /\ probe.ret.s = Resolved(probe.pieces, probe.environ)
       /\ UnsetReferences(probe.pieces, probe.environ) # {} =>
             Log("warning", "Environment variable not found") \in probe.logged

\* ------------------------------------------------------------------------
\* Direct calls of SecretsManager.get_secrets
\* ------------------------------------------------------------------------
SecretNames == EnvNames \cup {"OPENAI_API_KEY"}

\* the names whose os.getenv value passes "if not secret_value": set and
\* not the empty string
NonEmptyVars(environ) == {nm \in DOMAIN environ : environ[nm] = "value"}

NameSeqs == UNION {[1..n -> SecretNames] : n \in 0..MaxNames}

SecretsInit ==
    /\ EngineIdle
    /\ probe \in {[fn |-> "get_secrets", names |-> ns, environ |-> e,
                    done |-> FALSE, ret |-> get_secrets(<<>>, {})] :
                     ns \in NameSeqs, e \in [SecretNames -> EnvStates]}

\* self.secrets_manager.get_secrets(names)
CallGetSecrets ==
    /\ ~probe.done
    /\ probe' = [probe EXCEPT
                   !.done = TRUE,
                   !.ret = get_secrets(probe.names, NonEmptyVars(probe.environ))]
    /\ UNCHANGED engine_vars

SecretsNext == CallGetSecrets

SecretsSpec == SecretsInit /\ [][SecretsNext]_vars

\* positions of the requested names that are unset or empty
MissingAt(names, environ) == {i \in 1..Len(names) : environ[names[i]] # "value"}

\* ------------------------------------------------------------------------
\* C20: get_secrets(names) is all-or-nothing.  When every requested name
\* has a non-empty value it returns a mapping whose keys are exactly the
\* requested names; otherwise it raises MissingSecretError naming the first
\* requested name that is unset or empty, and returns no mapping at all.
\* ------------------------------------------------------------------------
C20_SecretsAllOrNothing ==
    probe.done =>
       LET missing == MissingAt(probe.names, probe.environ)
       IN  IF missing = {}
           THEN /\ ~probe.ret.raised
                /\ probe.ret.secrets = {probe.names[i] : i \in 1..Len(probe.names)}
           ELSE /\ probe.ret.raised
                /\ probe.ret.secrets = {}
                /\ \E i \in missing :
                      /\ \A j \in missing : i <= j
                      /\ probe.ret.missing = probe.names[i]

\* two names were requested, the first has a value and the second is set
\* to the empty string: MissingSecretError names the second
C20_Witness ==
    /\ probe.fn = "get_secrets"
    /\ probe.done
    /\ probe.names = <<"FRED_API_KEY", "SUPABASE_URL">>
    /\ probe.environ["FRED_API_KEY"] = "value"
    /\ probe.environ["SUPABASE_URL"] = "empty"
    /\ probe.ret.raised
    /\ probe.ret.missing = "SUPABASE_URL"

\* ------------------------------------------------------------------------
\* Secrets of a signal and the parameters its extractor is constructed with
\* ------------------------------------------------------------------------
\* signal_config.get("secrets", [])
DeclaredSecrets(sc) == {sc.secrets[i] : i \in 1..Len(sc.secrets)}

\* every entry of secret_mapping that names a declared secret has put the
\* secret's value into the parameter mapping
MappedSecretsMerged(sc, params) ==
    \A i \in 1..Len(sc.secret_mapping) :
       sc.secret_mapping[i].secret \in DeclaredSecrets(sc) =>
          \E k \in 1..Len(params.items) :
             params.items[k] = Pair(sc.secret_mapping[i].param,
                                    SecretValue(sc.secret_mapping[i].secret))

\* ------------------------------------------------------------------------
\* C21: for both extractor spec forms (symbolic name, module/class), when
\* the declared secrets of the signal are set in the environment, the values
\* named by secret_mapping are in the extractor's parameters by the time
\* the extractor is constructed.
\* ------------------------------------------------------------------------
C21_SecretsMergedForBothForms ==
    (/\ cur \in Signals
     /\ DeclaredSecrets(config[cur]) \subseteq env
     /\ EventIdx("construct_extractor") # {})
       => MappedSecretsMerged(config[cur], loc.extractor_params)

\* the loader entry of the current signal that construct_loader event i is
\* about
LoaderSpecOf(i) == LoaderConfigs(config[cur])[events[i].who]

\* the entry names an existing loader class and nothing before the
\* constructor call of the iteration raises
ReachesConstructor(spec, environ) ==
    /\ spec.name \in LoaderModules
    /\ spec.name # "google_sheets_loader"
    /\ ~(spec.name = "supabase_loader" /\ "SUPABASE_URL" \notin environ)

AttemptedKeywords(spec) ==
    {ConstructionAttempts(spec)[i] : i \in 1..Len(ConstructionAttempts(spec))}

\* ------------------------------------------------------------------------
\* C22: whatever form a loader entry takes (type name or module/class), a
\* loader whose class exists is dropped for a constructor-signature
\* mismatch only after both conventions, params= and config=, were tried.
\* ------------------------------------------------------------------------
C22_BothConventionsTried ==
    cur \in Signals =>
       \A i \in EventIdx("construct_loader") :
          (/\ ReachesConstructor(LoaderSpecOf(i), env)
           /\ events[i].out # "constructed")
             => AttemptedKeywords(LoaderSpecOf(i)) = {"params", "config"}

\* ------------------------------------------------------------------------
\* Terminal reports of a signal, as they appear in the log
\* ------------------------------------------------------------------------
\* log_etl_success(signal_name)
SuccessReported == Log("info", "SUCCESS") \in logs

\* the warning of the else branch after the loading loop
PartialReported == Log("warning", "processed but failed to load") \in logs

\* the error records written where the processing of a signal is given up:
\* an unresolved plugin, log_etl_failure in run(), the logger.error of the
\* except clauses of run_signal()
FailureMessages ==
    {"Unknown extractor", "Failed to import extractor", "Unknown transformer",
     "Failed to import transformer", "FAILURE"}
    \cup {FailureCategory(e) : e \in {"ExtractionError", "TransformationError",
                                      "LoadError", "Exception"}}

FailureReported == \E l \in logs : l.level = "error" /\ l.msg \in FailureMessages

ReportsEmitted ==
    (IF SuccessReported THEN {"success"} ELSE {})
    \cup (IF PartialReported THEN {"partial"} ELSE {})
    \cup (IF FailureReported THEN {"failure"} ELSE {})

\* ------------------------------------------------------------------------
\* C23: every signal that run() or run_signal() has finished processing
\* has exactly one of the three terminal reports (success, processed but
\* not fully loaded, failure) in the log, the one of its terminal state;
\* while a signal is processed at most one of them is in the log, so the
\* success report never accompanies a partial-load or failure report.
\* ------------------------------------------------------------------------
C23_OneTerminalReport ==
    /\ cur \in Signals => Cardinality(ReportsEmitted) <= 1
    /\ SignalReported =>
          ReportsEmitted = CASE status[cur] = "SUCCEEDED" -> {"success"}
                             [] status[cur] = "PARTIAL" -> {"partial"}
                             [] OTHER -> {"failure"}

\* run_signal() has ended for a signal one of whose loaders raised: the
\* warning is in the log and the success report is not
C23_Witness ==
    /\ RunSignalEnded
    /\ status[cur] = "PARTIAL"
    /\ PartialReported
    /\ ~SuccessReported
    /\ \E i \in EventIdx("load") : events[i].out = "LoadError"

\* the category of the stage a plugin call belongs to
StageCategory(op) ==
    CASE op \in {"construct_extractor", "fetch"} -> "Extract error"
      [] op = "transform" -> "Transform error"
      [] OTHER -> "Load error"

\* the last plugin call of the signal raised the typed error of its stage,
\* and the exception ended the processing of the signal
TypedStageFailure ==
    /\ SignalReported
    /\ loc.exc # "none"
    /\ events # <<>>
    /\ events[Len(events)].out \in {"ExtractionError", "TransformationError",
                                    "LoadError"}

\* ------------------------------------------------------------------------
\* C24: when fetch() or transform() of a bundled plugin raises its typed
\* error and the signal fails, the failure is logged under the category of
\* the stage the call belongs to (extraction, transformation, load).
\* ------------------------------------------------------------------------
C24_FailureLoggedUnderStage ==
    TypedStageFailure =>
       Log("error", StageCategory(events[Len(events)].op)) \in logs

\* ------------------------------------------------------------------------
\* C25: no step of run() or run_signal() modifies the loaded configuration:
\* the secret values merged into a signal's extractor parameters and the
\* credentials injected into a loader's parameters go to copies of the
\* configured mappings.
\* ------------------------------------------------------------------------
C25_ConfigNeverModified == [][config' = config]_vars

\* the last of MaxCalls invocations, a run(), has returned: its first signal
\* was loaded through a supabase_loader entry of the configuration, its
\* last signal got a secret value merged into its extractor parameters, and
\* the configured parameters of that signal do not hold the value
C25_Witness ==
    /\ RunEnded
    /\ calls = MaxCalls
    /\ status[1] = "SUCCEEDED"
    /\ config[1].has_loaders
    /\ \E i \in 1..Len(config[1].loaders) : config[1].loaders[i].name = "supabase_loader"
    /\ config[cur].secrets # <<>>
    /\ MappedSecretsMerged(config[cur], loc.extractor_params)
    /\ ~MappedSecretsMerged(config[cur], config[cur].extractor_params)
    /\ \A i \in Signals : config[i] \in SignalConfigs

\* ------------------------------------------------------------------------
\* Direct calls of _make_hashable_key on two parameter mappings a and b
\* that need not be equal
\* ------------------------------------------------------------------------
DistinctKeyNames == {StrV(1), StrV(2)}

\* parameter values: primitives, the dict {"x": 1}, the list [["x", 1]] and
\* the list ["x", 1]
KindValues ==
    {IntV(1), StrV(1), Dict(<<Pair(StrV(1), IntV(1))>>),
     List(<<List(<<StrV(1), IntV(1)>>)>>), List(<<StrV(1), IntV(1)>>)}

KindPairSeqs(n) ==
    {s \in [1..n -> {Pair(k, v) : k \in DistinctKeyNames, v \in KindValues}] :
        \A i, j \in 1..n : i # j => s[i].items[1] # s[j].items[1]}

KindMappings == {Dict(s) : s \in UNION {KindPairSeqs(n) : n \in 0..MaxKeys}}

PairKeysInit ==
    /\ EngineIdle
    /\ probe \in {[fn |-> "_make_hashable_key", a |-> m1, b |-> m2,
                    ka |-> NotCalled, kb |-> NotCalled] :
                     m1 \in KindMappings, m2 \in KindMappings}

PairKeysNext == CallMakeHashableKey

PairKeysSpec == PairKeysInit /\ [][PairKeysNext]_vars

\* a value with the entries of every dict in key order: two values are
\* structurally equal (same keys, same values, same container kinds) when
\* their canonical forms are equal
RECURSIVE Canonical(_)
Canonical(v) ==
    CASE v.t = "dict" ->
           Dict(SortedPairs([i \in 1..Len(v.items) |->
                   Pair(v.items[i].items[1], Canonical(v.items[i].items[2]))]))
      [] v.t = "list" -> List([i \in 1..Len(v.items) |-> Canonical(v.items[i])])
      [] OTHER -> v

StructurallyEqual(a, b) == Canonical(a) = Canonical(b)

\* ------------------------------------------------------------------------
\* C26: _make_hashable_key is injective on parameter structure: two
\* parameter mappings for which it yields equal keys are structurally
\* equal; a dict-valued parameter {"x": 1} and a list-valued parameter
\* [["x", 1]] do not share a key.
\* ------------------------------------------------------------------------
C26_KeysInjective ==
    (/\ KeysComputed
     /\ ~IsRaised(probe.ka)
     /\ probe.ka = probe.kb)
       => StructurallyEqual(probe.a, probe.b)

\* ------------------------------------------------------------------------
\* The engine with loaders whose load() may return False: every signal has
\* a tweet_metrics_loader, a file_loader and a supabase_loader entry, and
\* the environment is set
\* ------------------------------------------------------------------------
\* what load() does when it does not raise: "ok" is the return of True,
\* "False" the return of False (TweetMetricsLoader.load for a record
\* without metrics)
LoadReturns == {"ok", "False"}

ReturningConfig ==
    [BaseConfig EXCEPT !.loaders = <<ModuleLoader("tweet_metrics_loader"),
                                     TypeLoader("file_loader"),
                                     TypeLoader("supabase_loader")>>]

ReturnsInit ==
    /\ probe = NoProbe
    /\ config = [i \in Signals |-> ReturningConfig]
    /\ env = EnvNames
    /\ extractor_cache = {}
    /\ calls = 0
    /\ mode = "idle"
    /\ pc = "idle"
    /\ cur = 0
    /\ loc = InitLoc
    /\ events = <<>>
    /\ logs = {}
    /\ status = [i \in Signals |-> "PENDING"]
    /\ fetched = {}
    /\ fetch_failed = {}
    /\ result = Result("none", "none")

\* one iteration of the loop over loaders, load() returning True or False
\* or raising
LoadAnyReturn ==
    /\ pc = "load"
    /\ loc.lj <= Len(loc.loaders)
    /\ \E out \in LoadOutcomes \cup LoadReturns : LoadStep(out)
    /\ UNCHANGED <<probe, config, env, extractor_cache, calls, mode, pc, cur, status,
                   fetched, result, fetch_failed>>

ReturnsNext ==
    \/ Run
    \/ \E signal_name \in Signals \cup {Nonexistent} : RunSignal(signal_name)
    \/ NextSignal
    \/ RunReturn
    \/ ResolveExtractor
    \/ ResolveSecrets
    \/ CacheLookup
    \/ Fetch
    \/ FetchFallback
    \/ ResolveTransformer
    \/ Transform
    \/ BuildLoader
    \/ LoadAnyReturn
    \/ Report
    \/ HandleException

ReturnsSpec == ReturnsInit /\ [][ReturnsNext]_vars

\* some load() of the signal raised
SomeLoadRaised == \E i \in EventIdx("load") : events[i].out \notin LoadReturns

\* ------------------------------------------------------------------------
\* C27: the engine decides a loader's success only by whether load()
\* raised: a signal whose loading loop has finished is reported SUCCEEDED
\* exactly when no load() raised, whatever the calls returned, and
\* run_signal() returns True either way.
\* ------------------------------------------------------------------------
C27_ReturnValueIgnored ==
    (SignalReported /\ status[cur] \in {"SUCCEEDED", "PARTIAL"}) =>
       /\ status[cur] = "SUCCEEDED" <=> ~SomeLoadRaised
       /\ SuccessReported <=> ~SomeLoadRaised
       /\ RunSignalEnded => result.value = "True"

\* a signal whose tweet_metrics_loader returned False from load(), no
\* loader raising, has been reported SUCCEEDED
C27_Witness ==
    /\ SignalReported
    /\ status[cur] = "SUCCEEDED"
    /\ SuccessReported
    /\ \E i \in EventIdx("load") :
          /\ events[i].out = "False"
          /\ LoaderConfigs(config[cur])[events[i].who].name = "tweet_metrics_loader"

\* ------------------------------------------------------------------------
\* Direct calls of _process_env_vars with variables whose values contain a
\* reference: the string is written with {{NAME}} and ${NAME} exactly, and
\* every variable is unset, set to a plain value, or set to the text
\* ${OTHER} or {{OTHER}}
\* ------------------------------------------------------------------------
ValueStates == {"unset", "value", "dollar", "curly"}

ExactPieces == {p \in Pieces : p.l = 0 /\ p.r = 0}

ExactPieceSeqs == UNION {[1..n -> ExactPieces] : n \in 0..MaxPieces}

NestedInit ==
    /\ EngineIdle
    /\ probe \in
          {[fn |-> "_process_env_vars", pieces |-> ps, environ |-> e,
            arg |-> [t |-> "str", s |-> Flatten(ps)], ret |-> NotReturned,
            logged |-> {}] :
             ps \in ExactPieceSeqs, e \in [VarNames -> ValueStates]}

NestedNext == CallProcessEnvVars

NestedSpec == NestedInit /\ [][NestedNext]_vars

\* ------------------------------------------------------------------------
\* C28: template resolution is single-pass: every reference of the string
\* to a variable that is set is replaced by the variable's value, and the
\* inserted value is in the result verbatim, also when it contains the text
\* ${OTHER} or {{OTHER}}.
\* ------------------------------------------------------------------------
C28_SinglePass ==
    probe.ret # NotReturned =>
       probe.ret.s = Resolved(probe.pieces, probe.environ)

\* ------------------------------------------------------------------------
\* GoogleSheetsLoader._retry_with_backoff(func): the wrapped call answers
\* according to a script, one entry per invocation
\* ------------------------------------------------------------------------
max_retries == 5

base_delay == 2

\* what one invocation of func does: it returns, raises HttpError with
\* status 429 or with another status, or raises another exception
FuncOutcomes == {"ok", "429", "500", "Exception"}

Scripts == [1..max_retries -> FuncOutcomes]

RECURSIVE Pow2(_)
Pow2(n) == IF n = 0 THEN 1 ELSE 2 * Pow2(n - 1)

LinearDelay(attempt) == base_delay * (attempt + 1)

\* delay = base_delay * (2 ** attempt)
BackoffDelay(attempt) == base_delay * Pow2(attempt)

RetryInit ==
    /\ EngineIdle
    /\ probe \in {[fn |-> "_retry_with_backoff", script |-> s, attempt |-> 0,
                    invoked |-> 0, throttled |-> FALSE, delays |-> <<>>,
                    ret |-> "running"] : s \in Scripts}

\* one iteration of "for attempt in range(max_retries)": the rate-limit
\* waits (which depend on the clock), func(*args, **kwargs), and the except
\* clauses
RetryAttempt ==
    /\ probe.ret = "running"
    /\ probe.attempt < max_retries
    /\ \E th \in BOOLEAN :
          LET out == probe.script[probe.invoked + 1]
          IN  probe' = [probe EXCEPT
                          !.invoked = @ + 1,
                          !.throttled = th,
                          !.attempt = IF out = "429" THEN @ + 1 ELSE @,
                          !.delays = IF out = "429"
                                     THEN Append(@, BackoffDelay(probe.attempt))
                                     ELSE @,
                          !.ret = CASE out = "ok" -> "returned"
                                    [] out = "429" -> "running"
                                    [] out = "500" -> "HttpError"
                                    [] OTHER -> "LoadError: operation failed"]
    /\ UNCHANGED engine_vars

\* the statement after the loop
RetryExhausted ==
    /\ probe.ret = "running"
    /\ probe.attempt = max_retries
    /\ probe' = [probe EXCEPT !.ret = "LoadError: Max retries exceeded"]
    /\ UNCHANGED engine_vars

RetryNext == RetryAttempt \/ RetryExhausted

\* the interpreter keeps executing the function
RetrySpec == RetryInit /\ [][RetryNext]_vars /\ WF_vars(RetryNext)

\* the invocations of the script made so far all answered 429, except
\* possibly the last one
OnlyLastDiffers ==
    \A i \in 1..(probe.invoked - 1) : probe.script[i] = "429"

RetryOutcomeRight ==
    /\ probe.invoked <= 5
    /\ OnlyLastDiffers
    /\ \A i \in 1..Len(probe.delays) : probe.delays[i] = <<2, 4, 8, 16, 32>>[i]
    /\ Len(probe.delays) = Cardinality({i \in 1..probe.invoked : probe.script[i] = "429"})
    /\ probe.ret = "returned" => probe.script[probe.invoked] = "ok"
    /\ probe.ret = "HttpError" => probe.script[probe.invoked] = "500"
    /\ probe.ret = "LoadError: operation failed" =>
          probe.script[probe.invoked] = "Exception"
    /\ probe.ret = "LoadError: Max retries exceeded" =>
          /\ probe.invoked = 5
          /\ probe.script[5] = "429"
    /\ (probe.invoked > 0 /\ probe.script[probe.invoked] # "429") =>
          probe.ret # "running"

\* ------------------------------------------------------------------------
\* C29: _retry_with_backoff invokes the wrapped call at most 5 times and
\* terminates: it returns at the first call that succeeds, re-raises an
\* HttpError that is not a 429 at once, raises LoadError for any other
\* exception without retrying, sleeps 2, 4, 8, 16, 32 seconds after the
\* successive 429 answers, and raises LoadError("Max retries exceeded")
\* after five 429 answers in a row.
\* ------------------------------------------------------------------------
C29_RetryBoundedAndTerminates ==
    /\ []RetryOutcomeRight
    /\ <>(probe.ret # "running")

\* five 429 answers: five invocations, the five delays, Max retries exceeded
C29_Witness ==
    /\ probe.fn = "_retry_with_backoff"
    /\ probe.ret = "LoadError: Max retries exceeded"
    /\ probe.invoked = 5
    /\ probe.delays = <<2, 4, 8, 16, 32>>

\* ------------------------------------------------------------------------
\* CoinGeckoExtractor._make_request(endpoint, params): every invocation
\* sends one request, and the server chooses the answer
\* ------------------------------------------------------------------------
\* the number of nested _make_request frames the interpreter allows before
\* it raises RecursionError (sys.getrecursionlimit(), scaled down)
MaxDepth == 4

\* the Retry-After header of a 429 answer: no header, a number of seconds,
\* or an HTTP date
RetryAfterHeaders == {"absent", "5", "30", "date"}

\* int(response.headers.get("Retry-After", 60)) for a header that int()
\* accepts
RetryAfter(header) ==
    CASE header = "absent" -> 60
      [] header = "5" -> 5
      [] header = "30" -> 30

\* the answers of the server to one request: a JSON body, 429, another
\* error status, or no answer at all
ServerAnswers == {"200", "429", "500", "ConnectionError"}

RequestInit ==
    /\ EngineIdle
    /\ probe = [fn |-> "_make_request", depth |-> 0, requests |-> 0,
                slept |-> <<>>, ret |-> "running"]

\* one invocation: the rate-limit waits, requests.get, the bookkeeping and
\* the handling of the status code; on 429 the function sleeps and calls
\* itself with the same endpoint and params, and nothing counts the calls
MakeRequest ==
    /\ probe.ret = "running"
    /\ probe.depth < MaxDepth
    /\ \E answer \in ServerAnswers, header \in RetryAfterHeaders :
          probe' =
             CASE answer = "200" ->
                    [probe EXCEPT !.requests = @ + 1, !.ret = "json"]
               [] answer = "429" /\ header = "date" ->
                    [probe EXCEPT !.requests = @ + 1, !.ret = "ValueError"]
               [] answer = "429" /\ header # "date" ->
                    [probe EXCEPT !.requests = @ + 1,
                                  !.depth = @ + 1,
                                  !.slept = Append(@, RetryAfter(header))]
               [] answer = "500" ->
                    [probe EXCEPT !.requests = @ + 1, !.ret = "ExtractionError"]
               [] OTHER ->
                    [probe EXCEPT !.ret = "ExtractionError"]
    /\ UNCHANGED engine_vars

\* the recursive call that exceeds the interpreter's recursion limit
RecursionLimitReached ==
    /\ probe.ret = "running"
    /\ probe.depth = MaxDepth
    /\ probe' = [probe EXCEPT !.ret = "RecursionError"]
    /\ UNCHANGED engine_vars

RequestNext == MakeRequest \/ RecursionLimitReached

RequestSpec == RequestInit /\ [][RequestNext]_vars

\* ------------------------------------------------------------------------
\* C30: _make_request ends, for every server behaviour, by returning a
\* JSON body or raising ExtractionError: the retries after 429 answers are
\* ended by the extractor's own logic (a Retry-After header that is not a
\* number of seconds is left aside here).
\* ------------------------------------------------------------------------
C30_RequestEndsByOwnLogic ==
    (probe.ret # "running" /\ probe.ret # "ValueError") =>
       probe.ret \in {"json", "ExtractionError"}

====
